---- MODULE Spec2Model ----
(***************************************************************************)
(* Electricity cost allocation of lianjen/rental_saas2026.                 *)
(*                                                                         *)
(*   ElectricityCalculator   src/views/electricity/calculator.py           *)
(*   render_calculation_tab  src/views/electricity.py                      *)
(*   ElectricityStorage      src/views/electricity/storage.py              *)
(*                                                                         *)
(* Number representation.  Consumption (kWh) and the unit price are kept   *)
(* as integers counting hundredths: the store holds them as DECIMAL(10,2)  *)
(* (storage.py:458-459, 472, 486-488, 501-503) and the calculator rounds   *)
(* them with round(x, 2).  Bill amounts and charges are whole currency     *)
(* units (electricity.py:188-194, storage.py:489, 504-506).  Python's      *)
(* round() is modelled as round-half-to-even on the exact quotient; the    *)
(* binary representation error of a float is not modelled, so the model    *)
(* and the program can differ only on inputs whose exact value is a tie.   *)
(* The claims' formulas speak of "nearest", which both satisfy.            *)
(***************************************************************************)
EXTENDS Integers, Sequences, FiniteSets, TLC

VARIABLES
    pc,               \* position of the calculator call: "ready" | "done" ("idle": no call)
    taipower_amount,  \* argument of calculate_all_rooms (whole currency units)
    taipower_kwh,     \* argument of calculate_all_rooms (hundredths of kWh)
    room_readings,    \* argument: insertion-ordered dict, a sequence of [room, kwh]
    raised,           \* exception that left calculate_all_rooms, or "none"
    result,           \* <<>> when nothing was returned, else <<the returned dict>>
    divisions,        \* number of divisions the call evaluated
    bills,            \* electricity_taipower_bills of the current period: floor -> [amount, kwh]
    readings,         \* electricity_meter_readings of the current period (sequence of [room, kwh])
    previous_readings,\* readings of the previous period (sequence of [room, kwh])
    charges,          \* electricity_charges of the current period (sequence of rows)
    summary,          \* electricity_period_summary of the current period (<<>> or <<row>>)
    run,              \* what the last run of render_calculation_tab did
    sharing_rooms,    \* ElectricityCalculator.sharing_rooms (the object's field)
    first_call,       \* <<>> or <<arguments and outcome of the calculator's earlier call>>
    arg_current, \* argument of validate_readings (sequence of [room, kwh])
    arg_previous,   \* argument of validate_readings: <<>> stands for None and for {}
    verdict,          \* <<>> or <<what validate_readings returned>>
    db,               \* committed rows of one period: [charges, summary]
    tx,               \* per caller: the open transaction of save_charge_results
    periods,          \* committed rows of electricity_periods
    next_id,          \* the SERIAL sequence of electricity_periods.id
    creator           \* per caller: the open transaction of create_period

vars == <<pc, taipower_amount, taipower_kwh, room_readings, raised, result, divisions,
          bills, readings, previous_readings, charges, summary, run,
          sharing_rooms, first_call, arg_current, arg_previous, verdict,
          db, tx, periods, next_id, creator>>

validateVars == <<arg_current, arg_previous, verdict>>
storeVars == <<db, tx>>
periodVars == <<periods, next_id, creator>>

calcVars == <<pc, taipower_amount, taipower_kwh, room_readings, raised, result, divisions,
              sharing_rooms, first_call>>
flowVars == <<bills, readings, previous_readings, charges, summary, run>>

-----------------------------------------------------------------------------
(* Bounds and input domains *)

MaxRooms == 3
Scale == 100

\* RoomConfig, reduced to one exclusive and three sharing rooms.
EXCLUSIVE_ROOMS == {"1A"}
SHARING_ROOMS == {"2A", "2B", "3A"}
ALL_ROOMS == <<"1A", "2A", "2B", "3A">>

\* A unit the configuration does not know (in neither list).
UnknownRoom == "5A"

\* Python's string order on the room codes used here.
RoomOrder == <<"1A", "2A", "2B", "3A", "5A">>
RoomRank(r) == CHOOSE i \in 1..Len(RoomOrder) : RoomOrder[i] = r
RoomLess(a, b) == RoomRank(a) < RoomRank(b)

Units == {RoomOrder[i] : i \in 1..Len(RoomOrder)}

AmountSet == {1000, 10000}
KwhSet == {-100 * Scale, 0, 300 * Scale, 600 * Scale, 1000 * Scale}
ReadingSet == {100 * Scale, 200 * Scale, 300 * Scale, 15033, 14967}

-----------------------------------------------------------------------------
(* Arithmetic helpers *)

Abs(x) == IF x < 0 THEN -x ELSE x

\* round(n / d) for d > 0: nearest integer, ties to the even one (Python 3 round).
RoundHalfEven(n, d) ==
    LET q == n \div d
        r == n % d
    IN  IF 2 * r < d THEN q
        ELSE IF 2 * r > d THEN q + 1
        ELSE IF q % 2 = 0 THEN q ELSE q + 1

\* Truncation toward minus infinity (what int-style flooring would give instead of round).
FloorDiv(n, d) == n \div d

RECURSIVE SumKwh(_)
SumKwh(m) == IF m = <<>> THEN 0 ELSE Head(m).kwh + SumKwh(Tail(m))

RECURSIVE SumCharge(_)
SumCharge(rows) == IF rows = <<>> THEN 0 ELSE Head(rows).charge + SumCharge(Tail(rows))

RECURSIVE SumTotalKwh(_)
SumTotalKwh(rows) == IF rows = <<>> THEN 0 ELSE Head(rows).total_kwh + SumTotalKwh(Tail(rows))

RECURSIVE SumRoomKwh(_)
SumRoomKwh(rows) == IF rows = <<>> THEN 0 ELSE Head(rows).room_kwh + SumRoomKwh(Tail(rows))

Keys(m) == {m[i].room : i \in 1..Len(m)}
Get(m, r) == (CHOOSE i \in 1..Len(m) : m[i].room = r)
ValueOf(m, r) == m[Get(m, r)].kwh

SortedByRoom_insertion_order(rows) == rows

\* sorted(rows, key=lambda x: x['room']) by insertion into a sorted prefix.
RECURSIVE SortedByRoom(_)
Insert(row, s) ==
    LET k == Cardinality({i \in 1..Len(s) : ~RoomLess(row.room, s[i].room)})
    IN  SubSeq(s, 1, k) \o <<row>> \o SubSeq(s, k + 1, Len(s))
SortedByRoom(rows) ==
    IF rows = <<>> THEN <<>>
    ELSE Insert(rows[Len(rows)], SortedByRoom(SubSeq(rows, 1, Len(rows) - 1)))

-----------------------------------------------------------------------------
(* ElectricityCalculator *)

calculate_unit_price_no_guard(total_amount, total_kwh) ==
    IF total_kwh < 0
    THEN [raised |-> "none", value |-> RoundHalfEven(-total_amount * Scale * Scale, -total_kwh),
          divisions |-> 1]
    ELSE IF total_kwh = 0
    THEN [raised |-> "ZeroDivisionError", value |-> 0, divisions |-> 1]
    ELSE [raised |-> "none", value |-> RoundHalfEven(total_amount * Scale * Scale, total_kwh),
          divisions |-> 1]

calculate_unit_price_floor(total_amount, total_kwh) ==
    IF total_kwh <= 0
    THEN [raised |-> "ValueError", value |-> 0, divisions |-> 0]
    ELSE [raised |-> "none", value |-> FloorDiv(total_amount * Scale * Scale, total_kwh),
          divisions |-> 1]

\* unit price in hundredths: round(total_amount / total_kwh, 2)
calculate_unit_price(total_amount, total_kwh) ==
    IF total_kwh <= 0
    THEN [raised |-> "ValueError", value |-> 0, divisions |-> 0]
    ELSE [raised |-> "none", value |-> RoundHalfEven(total_amount * Scale * Scale, total_kwh),
          divisions |-> 1]

calculate_public_electricity_no_clamp(kwh, m) ==
    RoundHalfEven(kwh - SumKwh(m), 1)

calculate_public_electricity(kwh, m) ==
    LET total_room_kwh == SumKwh(m)
        public_kwh == kwh - total_room_kwh
    IN  IF public_kwh < 0 THEN 0 ELSE RoundHalfEven(public_kwh, 1)

calculate_shared_electricity_whole(public_kwh, sharing_room_count) ==
    IF sharing_room_count <= 0 THEN 0
    ELSE Scale * RoundHalfEven(public_kwh, sharing_room_count * Scale)

calculate_shared_electricity_floor(public_kwh, sharing_room_count) ==
    IF sharing_room_count <= 0 THEN 0 ELSE FloorDiv(public_kwh, sharing_room_count)

calculate_shared_electricity(public_kwh, sharing_room_count) ==
    IF sharing_room_count <= 0 THEN 0 ELSE RoundHalfEven(public_kwh, sharing_room_count)

sharing_count_all(m) == Len(m)

\* len([r for r in room_readings.keys() if r in self.sharing_rooms])
sharing_count_of(m) == Cardinality({i \in 1..Len(m) : m[i].room \in sharing_rooms})

calculate_room_charge_share_all(room_number, room_kwh, unit_price, shared_kwh) ==
    LET total_kwh == room_kwh + shared_kwh
    IN  [room |-> room_number,
         room_kwh |-> RoundHalfEven(room_kwh, 1),
         shared_kwh |-> RoundHalfEven(shared_kwh, 1),
         total_kwh |-> RoundHalfEven(total_kwh, 1),
         charge |-> RoundHalfEven(total_kwh * unit_price, Scale * Scale),
         is_sharing |-> room_number \in sharing_rooms]

calculate_room_charge_floor(room_number, room_kwh, unit_price, shared_kwh) ==
    LET is_sharing == room_number \in sharing_rooms
        actual_shared_kwh == IF is_sharing THEN shared_kwh ELSE 0
        total_kwh == room_kwh + actual_shared_kwh
    IN  [room |-> room_number,
         room_kwh |-> RoundHalfEven(room_kwh, 1),
         shared_kwh |-> RoundHalfEven(actual_shared_kwh, 1),
         total_kwh |-> RoundHalfEven(total_kwh, 1),
         charge |-> FloorDiv(total_kwh * unit_price, Scale * Scale),
         is_sharing |-> is_sharing]

calculate_room_charge(room_number, room_kwh, unit_price, shared_kwh) ==
    LET is_sharing == room_number \in sharing_rooms
        actual_shared_kwh == IF is_sharing THEN shared_kwh ELSE 0
        total_kwh == room_kwh + actual_shared_kwh
    IN  [room |-> room_number,
         room_kwh |-> RoundHalfEven(room_kwh, 1),
         shared_kwh |-> RoundHalfEven(actual_shared_kwh, 1),
         total_kwh |-> RoundHalfEven(total_kwh, 1),
         charge |-> RoundHalfEven(total_kwh * unit_price, Scale * Scale),
         is_sharing |-> is_sharing]

difference_swapped(total_charge, amount) == RoundHalfEven(amount - total_charge, 1)

\* difference = total_charge - taipower_amount; round(difference, 2)
difference_of(total_charge, amount) == RoundHalfEven(total_charge - amount, 1)

calculate_all_rooms(amount, kwh, m) ==
    LET up == calculate_unit_price(amount, kwh)
    IN  IF up.raised # "none"
        THEN [raised |-> up.raised, returned |-> <<>>, divisions |-> up.divisions]
        ELSE
        LET unit_price == up.value
            public_kwh == calculate_public_electricity(kwh, m)
            sharing_count == sharing_count_of(m)
            shared_kwh_per_room == calculate_shared_electricity(public_kwh, sharing_count)
            room_charges == [i \in 1..Len(m) |->
                calculate_room_charge(m[i].room, m[i].kwh, unit_price, shared_kwh_per_room)]
            total_charge == SumCharge(room_charges)
            difference == difference_of(total_charge, amount)
        IN  [raised |-> "none",
             returned |-> <<[unit_price |-> unit_price,
                             public_kwh |-> public_kwh,
                             shared_kwh_per_room |-> shared_kwh_per_room,
                             sharing_room_count |-> sharing_count,
                             room_charges |-> SortedByRoom(room_charges),
                             total_charge |-> total_charge,
                             taipower_amount |-> amount,
                             difference |-> difference]>>,
             divisions |-> up.divisions + (IF sharing_count <= 0 THEN 0 ELSE 1)]

-----------------------------------------------------------------------------
(* Reading maps offered to the calculator: every set of at most MaxRooms    *)
(* units, every value of ReadingSet, inserted in ascending or descending    *)
(* order of room code.                                                      *)

RECURSIVE AscSeq(_)
AscSeq(S) ==
    IF S = {} THEN <<>>
    ELSE LET r == CHOOSE x \in S : \A y \in S : ~RoomLess(y, x)
         IN  <<r>> \o AscSeq(S \ {r})

Reverse(s) == [i \in 1..Len(s) |-> s[Len(s) + 1 - i]]

MapsOver(S, V) ==
    LET asc == AscSeq(S)
    IN  UNION {
          LET a == [i \in 1..Len(asc) |-> [room |-> asc[i], kwh |-> f[asc[i]]]]
          IN  {a, Reverse(a)} : f \in [S -> V]}

ReadingMaps == UNION {MapsOver(S, ReadingSet) :
                      S \in {T \in SUBSET Units : Cardinality(T) <= MaxRooms}}

\* The calculator as get_calculator builds it (electricity.py:48-55).
NewCalculator ==
    /\ sharing_rooms = SHARING_ROOMS
    /\ first_call = <<>>

fields_after_call_dropping(s) ==
    IF s = {} THEN s ELSE s \ {CHOOSE r \in s : \A q \in s : ~RoomLess(q, r)}

\* The object's fields after a call: no method of the calculator assigns to self.
fields_after_call(s) == s

NoCalc ==
    /\ pc = "idle"
    /\ taipower_amount = 0
    /\ taipower_kwh = 0
    /\ room_readings = <<>>
    /\ raised = "none"
    /\ result = <<>>
    /\ divisions = 0
    /\ NewCalculator

NoValidate ==
    /\ arg_current = <<>>
    /\ arg_previous = <<>>
    /\ verdict = <<>>

NoStore ==
    /\ db = [charges |-> {}, summary |-> {}]
    /\ tx = <<>>

NoPeriod ==
    /\ periods = {}
    /\ next_id = 1
    /\ creator = <<>>

NoFlow ==
    /\ bills = <<>>
    /\ readings = <<>>
    /\ previous_readings = <<>>
    /\ charges = <<>>
    /\ summary = <<>>
    /\ run = [step |-> "none"]

InitCalc ==
    /\ pc = "ready"
    /\ taipower_amount \in AmountSet
    /\ taipower_kwh \in KwhSet
    /\ room_readings \in ReadingMaps
    /\ raised = "none"
    /\ result = <<>>
    /\ divisions = 0
    /\ NewCalculator
    /\ NoFlow
    /\ NoValidate
    /\ NoStore
    /\ NoPeriod

\* One call calculator.calculate_all_rooms(taipower_amount, taipower_kwh, room_readings).
Calculate ==
    /\ pc = "ready"
    /\ LET out == calculate_all_rooms(taipower_amount, taipower_kwh, room_readings)
       IN  /\ raised' = out.raised
           /\ result' = out.returned
           /\ divisions' = out.divisions
    /\ pc' = "done"
    /\ sharing_rooms' = fields_after_call(sharing_rooms)
    /\ UNCHANGED <<taipower_amount, taipower_kwh, room_readings, first_call>>
    /\ UNCHANGED <<flowVars, validateVars, storeVars, periodVars>>

NextCalc == Calculate

SpecCalc == InitCalc /\ [][NextCalc]_vars

-----------------------------------------------------------------------------
(* Properties of calculate_all_rooms, checked under SpecCalc *)

Returned == pc = "done" /\ result # <<>>
Res == result[1]
Rows == Res.room_charges
SharingInMap == Keys(room_readings) \cap SHARING_ROOMS
RowOf(r) == Rows[CHOOSE i \in 1..Len(Rows) : Rows[i].room = r]

\* C1: a call with aggregate consumption <= 0 raises the ValueError of
\* calculate_unit_price, evaluates no division and returns nothing.
C1_ZeroDivisionGuard ==
    (pc = "done" /\ taipower_kwh <= 0) =>
        /\ raised = "ValueError"
        /\ result = <<>>
        /\ divisions = 0

C1_Witness ==
    /\ pc = "done"
    /\ taipower_amount = 1000
    /\ taipower_kwh = 0
    /\ room_readings # <<>>
    /\ raised = "ValueError"

\* C3: every unit of the reading map outside the sharing set has a row with
\* shared consumption 0 and total consumption equal to its own reading.
C3_ExclusiveInvariance ==
    Returned =>
        \A r \in Keys(room_readings) \ SHARING_ROOMS :
            /\ \E i \in 1..Len(Rows) : Rows[i].room = r
            /\ RowOf(r).shared_kwh = 0
            /\ RowOf(r).total_kwh = ValueOf(room_readings, r)

C3_Witness ==
    /\ Returned
    /\ Res.shared_kwh_per_room > 0
    /\ "1A" \in Keys(room_readings)
    /\ UnknownRoom \in Keys(room_readings)
    /\ RowOf("1A").shared_kwh = 0
    /\ RowOf(UnknownRoom).shared_kwh = 0

\* C4: common consumption is aggregate consumption minus the sum of the
\* readings when that is >= 0 and 0 otherwise; it is never negative.
C4_CommonConsumption ==
    Returned =>
        /\ Res.public_kwh =
              (IF taipower_kwh - SumKwh(room_readings) >= 0
               THEN taipower_kwh - SumKwh(room_readings) ELSE 0)
        /\ Res.public_kwh >= 0

C4_Witness ==
    /\ Returned
    /\ room_readings # <<>>
    /\ taipower_kwh - SumKwh(room_readings) > 0
    /\ Res.public_kwh = taipower_kwh - SumKwh(room_readings)

\* C5: the per-unit share is the common consumption divided by the number of
\* sharing units present in the map, to the nearest hundredth, 0 when there is
\* none; every sharing unit's row carries that same value.
C5_SharedPerUnit ==
    Returned =>
        LET n == Cardinality(SharingInMap)
            share == Res.shared_kwh_per_room
        IN  /\ Res.sharing_room_count = n
            /\ n = 0 => share = 0
            /\ n > 0 => 2 * Abs(share * n - Res.public_kwh) <= n
            /\ \A r \in SharingInMap : RowOf(r).shared_kwh = share

C5_Witness ==
    /\ Returned
    /\ "1A" \in Keys(room_readings)
    /\ Cardinality(SharingInMap) = 2
    /\ Res.shared_kwh_per_room > 0
    /\ Res.public_kwh % 2 = 1

\* C6: every charge is the unit's total consumption (own reading, plus the
\* share when the unit is sharing) times the 2-decimal blended price, to the
\* nearest whole currency unit; the price is amount / consumption to the
\* nearest hundredth.
C6_Charge ==
    Returned =>
        /\ 2 * Abs(Res.unit_price * taipower_kwh - taipower_amount * Scale * Scale)
              <= taipower_kwh
        /\ \A r \in Keys(room_readings) :
              LET total == ValueOf(room_readings, r) +
                           (IF r \in SHARING_ROOMS THEN Res.shared_kwh_per_room ELSE 0)
              IN  /\ RowOf(r).total_kwh = total
                  /\ RowOf(r).charge \in Int
                  /\ 2 * Abs(RowOf(r).charge * Scale * Scale - total * Res.unit_price)
                        <= Scale * Scale

C6_Witness ==
    /\ Returned
    /\ \E r \in SharingInMap :
          /\ RowOf(r).shared_kwh > 0
          /\ (RowOf(r).total_kwh * Res.unit_price) % (Scale * Scale) > (Scale * Scale) \div 2
    /\ 2 * ((taipower_amount * Scale * Scale) % taipower_kwh) > taipower_kwh

\* C7: total_charge is the sum of the rows' charges and difference is
\* total_charge minus the bill amount; every call with positive consumption
\* returns, whatever the difference.
C7_TotalAndDifference ==
    (pc = "done" /\ taipower_kwh > 0) =>
        /\ raised = "none"
        /\ result # <<>>
        /\ Res.total_charge = SumCharge(Rows)
        /\ Res.difference = Res.total_charge - taipower_amount
        /\ Res.taipower_amount = taipower_amount

C7_Witness ==
    /\ Returned
    /\ Len(Rows) = 3
    /\ Res.difference # 0
    /\ Res.difference = SumCharge(Rows) - taipower_amount

NotClamped == taipower_kwh - SumKwh(room_readings) >= 0

\* C8 as stated: without clamping, the rows' total consumption sums to
\* aggregate consumption minus common consumption.
C8_Original ==
    (Returned /\ NotClamped) =>
        SumTotalKwh(Rows) = taipower_kwh - Res.public_kwh

\* C8 amended: without clamping, the rows' total consumption sums to aggregate
\* consumption minus common consumption plus sharing-unit count times the
\* per-unit share (the rows' own consumption sums to aggregate minus common).
C8_Conservation ==
    (Returned /\ NotClamped) =>
        /\ SumTotalKwh(Rows) =
              taipower_kwh - Res.public_kwh
                + Res.sharing_room_count * Res.shared_kwh_per_room
        /\ SumRoomKwh(Rows) = taipower_kwh - Res.public_kwh

C8_Witness ==
    /\ Returned
    /\ NotClamped
    /\ Res.sharing_room_count = 2
    /\ "1A" \in Keys(room_readings)
    /\ Res.shared_kwh_per_room > 0
    /\ SumTotalKwh(Rows) # taipower_kwh - Res.public_kwh

\* The end-to-end scenario: A = 1A (exclusive), B = 2A, C = 2B (sharing).
ScenarioC9 ==
    /\ taipower_amount = 10000
    /\ taipower_kwh = 1000 * Scale
    /\ Keys(room_readings) = {"1A", "2A", "2B"}
    /\ ValueOf(room_readings, "1A") = 100 * Scale
    /\ ValueOf(room_readings, "2A") = 200 * Scale
    /\ ValueOf(room_readings, "2B") = 300 * Scale

\* C9: amount 10000, consumption 1000, readings A=100 (exclusive), B=200,
\* C=300 (sharing) give price 10.00, common 400, count 2, share 200.00, totals
\* 100/400/500, charges 1000/4000/5000, total 10000, difference 0.
C9_EndToEnd ==
    (pc = "done" /\ ScenarioC9) =>
        /\ raised = "none"
        /\ result = <<[unit_price |-> 10 * Scale,
                       public_kwh |-> 400 * Scale,
                       shared_kwh_per_room |-> 200 * Scale,
                       sharing_room_count |-> 2,
                       room_charges |-> <<
                           [room |-> "1A", room_kwh |-> 100 * Scale, shared_kwh |-> 0,
                            total_kwh |-> 100 * Scale, charge |-> 1000, is_sharing |-> FALSE],
                           [room |-> "2A", room_kwh |-> 200 * Scale,
                            shared_kwh |-> 200 * Scale,
                            total_kwh |-> 400 * Scale, charge |-> 4000, is_sharing |-> TRUE],
                           [room |-> "2B", room_kwh |-> 300 * Scale,
                            shared_kwh |-> 200 * Scale,
                            total_kwh |-> 500 * Scale, charge |-> 5000, is_sharing |-> TRUE]>>,
                       total_charge |-> 10000,
                       taipower_amount |-> 10000,
                       difference |-> 0]>>

C9_Witness == Returned /\ ScenarioC9 /\ Res.total_charge = 10000

\* The rounding scenario: two sharing units whose totals are 150.33 and 149.67.
ScenarioC10 ==
    /\ taipower_amount = 1000
    /\ taipower_kwh = 300 * Scale
    /\ Keys(room_readings) = {"2A", "2B"}
    /\ Returned
    /\ RowOf("2A").total_kwh = 15033
    /\ RowOf("2B").total_kwh = 14967

\* C10 as stated: price 3.33, charges 500 and 499, total 999, difference -1.
C10_Original ==
    ScenarioC10 =>
        /\ Res.unit_price = 333
        /\ RowOf("2A").charge = 500
        /\ RowOf("2B").charge = 499
        /\ Res.total_charge = 999
        /\ Res.difference = -1

\* C10 amended: price 3.33, charges 501 (150.33 x 3.33 = 500.5989) and 498
\* (149.67 x 3.33 = 498.4011), total 999, difference -1, returned in the result.
C10_RoundingDifference ==
    ScenarioC10 =>
        /\ Res.unit_price = 333
        /\ RowOf("2A").charge = 501
        /\ RowOf("2B").charge = 498
        /\ Res.total_charge = 999
        /\ Res.difference = -1

C10_Witness == ScenarioC10 /\ Res.difference = -1 /\ raised = "none"

-----------------------------------------------------------------------------
(* ElectricityCalculator.validate_readings *)

\* The issues of one loop, in the insertion order of the current map.
RECURSIVE NegativeIssues(_)
NegativeIssues(cur) ==
    IF cur = <<>> THEN <<>>
    ELSE (IF Head(cur).kwh < 0
          THEN <<[room |-> Head(cur).room, kind |-> "negative"]>> ELSE <<>>)
         \o NegativeIssues(Tail(cur))

RECURSIVE RegressionIssues_not_above(_, _)
RegressionIssues_not_above(cur, prev) ==
    IF cur = <<>> THEN <<>>
    ELSE (IF Head(cur).room \in Keys(prev) /\ Head(cur).kwh <= ValueOf(prev, Head(cur).room)
          THEN <<[room |-> Head(cur).room, kind |-> "regressed"]>> ELSE <<>>)
         \o RegressionIssues_not_above(Tail(cur), prev)

RECURSIVE RegressionIssues(_, _)
RegressionIssues(cur, prev) ==
    IF cur = <<>> THEN <<>>
    ELSE (IF Head(cur).room \in Keys(prev) /\ Head(cur).kwh < ValueOf(prev, Head(cur).room)
          THEN <<[room |-> Head(cur).room, kind |-> "regressed"]>> ELSE <<>>)
         \o RegressionIssues(Tail(cur), prev)

validate_readings_first_only(current_readings, prev) ==
    LET errors == NegativeIssues(current_readings)
                  \o (IF prev # <<>> THEN RegressionIssues(current_readings, prev) ELSE <<>>)
    IN  [ok |-> Len(errors) = 0, errors |-> IF errors = <<>> THEN errors ELSE <<Head(errors)>>]

validate_readings(current_readings, prev) ==
    LET errors == NegativeIssues(current_readings)
                  \o (IF prev # <<>> THEN RegressionIssues(current_readings, prev) ELSE <<>>)
    IN  [ok |-> Len(errors) = 0, errors |-> errors]

-----------------------------------------------------------------------------
(* render_calculation_tab over the store of the selected period *)

\* The rooms the tab offers an input for (ROOMS.ALL_ROOMS), reduced to one
\* exclusive and one sharing room.
FlowRooms == <<"1A", "2A">>
FlowRoomSet == {FlowRooms[i] : i \in 1..Len(FlowRooms)}
Floors == {"1F", "2-4F"}
FlowAmountSet == {1000}
FlowKwhSet == {0, 300 * Scale}
FlowReadingSet == {0, 100 * Scale}

\* A table keyed by room (a function) as the dict a SELECT without ORDER BY
\* yields: the rows in either order of room code.
DictsOf(table) ==
    LET asc == AscSeq(DOMAIN table)
        a == [i \in 1..Len(asc) |-> [room |-> asc[i], kwh |-> table[asc[i]]]]
    IN  {a, Reverse(a)}

\* df_bills['amount'].sum(), df_bills['kwh'].sum()
RECURSIVE SumBills(_, _)
SumBills(b, field) ==
    IF DOMAIN b = {} THEN 0
    ELSE LET f == CHOOSE x \in DOMAIN b : TRUE
         IN  b[f][field] + SumBills([g \in DOMAIN b \ {f} |-> b[g]], field)

Upsert(table, key, value) ==
    [k \in DOMAIN table \cup {key} |-> IF k = key THEN value ELSE table[k]]

\* The rows save_charge_results writes: electricity_charges keyed by room.
ChargeTable(res) ==
    [r \in {res.room_charges[i].room : i \in 1..Len(res.room_charges)} |->
        res.room_charges[CHOOSE i \in 1..Len(res.room_charges) : res.room_charges[i].room = r]]

SummaryRow(res) ==
    [unit_price |-> res.unit_price, public_kwh |-> res.public_kwh,
     shared_kwh_per_room |-> res.shared_kwh_per_room, total_charge |-> res.total_charge,
     taipower_amount |-> res.taipower_amount, difference |-> res.difference]

CalcRun(outcome, meter, prev, v, out, save_called, saved) ==
    [step |-> "calculate", outcome |-> outcome,
     readings_read |-> Len(meter), previous_read |-> Len(prev),
     validated |-> v # <<>>,
     valid |-> v # <<>> /\ v[1].ok,
     errors_shown |-> IF v # <<>> /\ ~v[1].ok THEN v[1].errors ELSE <<>>,
     calculated |-> out # <<>>,
     result |-> IF out # <<>> THEN out[1].returned ELSE <<>>,
     save_called |-> save_called, saved |-> saved]

\* The step without the return after a failed validation.
calculation_step_no_return(df_bills, meter_readings, prev, save_clicked, save_ok) ==
    IF DOMAIN df_bills = {}
    THEN CalcRun("no_bills", meter_readings, prev, <<>>, <<>>, FALSE, FALSE)
    ELSE IF meter_readings = <<>>
    THEN CalcRun("no_readings", meter_readings, prev, <<>>, <<>>, FALSE, FALSE)
    ELSE
    LET v == validate_readings(meter_readings, prev)
        out == calculate_all_rooms(SumBills(df_bills, "amount"), SumBills(df_bills, "kwh"),
                                   meter_readings)
    IN  IF out.raised # "none"
        THEN CalcRun("calculation_failed", meter_readings, prev, <<v>>, <<out>>, FALSE, FALSE)
        ELSE CalcRun("calculated", meter_readings, prev, <<v>>, <<out>>,
                     save_clicked, save_clicked /\ save_ok)

calculation_step_needing_previous(df_bills, meter_readings, prev, save_clicked, save_ok) ==
    IF DOMAIN df_bills = {}
    THEN CalcRun("no_bills", meter_readings, prev, <<>>, <<>>, FALSE, FALSE)
    ELSE IF meter_readings = <<>>
    THEN CalcRun("no_readings", meter_readings, prev, <<>>, <<>>, FALSE, FALSE)
    ELSE IF prev = <<>>
    THEN CalcRun("no_previous", meter_readings, prev, <<>>, <<>>, FALSE, FALSE)
    ELSE
    LET v == validate_readings(meter_readings, prev)
    IN  IF ~v.ok
        THEN CalcRun("invalid", meter_readings, prev, <<v>>, <<>>, FALSE, FALSE)
        ELSE
        LET out == calculate_all_rooms(SumBills(df_bills, "amount"),
                                       SumBills(df_bills, "kwh"), meter_readings)
        IN  IF out.raised # "none"
            THEN CalcRun("calculation_failed", meter_readings, prev, <<v>>, <<out>>,
                         FALSE, FALSE)
            ELSE CalcRun("calculated", meter_readings, prev, <<v>>, <<out>>,
                         save_clicked, save_clicked /\ save_ok)

\* Lines 318-404: what one click on the calculate button does, given the
\* bills and readings read from the store, the previous readings read at line
\* 257, the value of the nested save button and whether its transaction commits.
calculation_step(df_bills, meter_readings, prev, save_clicked, save_ok) ==
    IF DOMAIN df_bills = {}
    THEN CalcRun("no_bills", meter_readings, prev, <<>>, <<>>, FALSE, FALSE)
    ELSE IF meter_readings = <<>>
    THEN CalcRun("no_readings", meter_readings, prev, <<>>, <<>>, FALSE, FALSE)
    ELSE
    LET v == validate_readings(meter_readings, prev)
    IN  IF ~v.ok
        THEN CalcRun("invalid", meter_readings, prev, <<v>>, <<>>, FALSE, FALSE)
        ELSE
        LET out == calculate_all_rooms(SumBills(df_bills, "amount"),
                                       SumBills(df_bills, "kwh"), meter_readings)
        IN  IF out.raised # "none"
            THEN CalcRun("calculation_failed", meter_readings, prev, <<v>>, <<out>>,
                         FALSE, FALSE)
            ELSE CalcRun("calculated", meter_readings, prev, <<v>>, <<out>>,
                         save_clicked, save_clicked /\ save_ok)

InitFlow ==
    /\ pc = "idle"
    /\ taipower_amount = 0
    /\ taipower_kwh = 0
    /\ room_readings = <<>>
    /\ raised = "none"
    /\ result = <<>>
    /\ divisions = 0
    /\ bills = <<>>
    /\ readings = <<>>
    /\ previous_readings \in
          {<<>>} \cup {[r \in FlowRoomSet |-> v] : v \in FlowReadingSet \ {0}}
    /\ charges = <<>>
    /\ summary = <<>>
    /\ run = [step |-> "none"]
    /\ NewCalculator
    /\ NoValidate
    /\ NoStore
    /\ NoPeriod

\* A run with one of the two bill buttons clicked (lines 203-208, 228-233):
\* save_taipower_bill upserts the row, or fails and leaves the table as it was.
ClickSaveBill ==
    \E floor \in Floors, amount \in FlowAmountSet, kwh \in FlowKwhSet, ok \in BOOLEAN :
        /\ bills' = IF ok THEN Upsert(bills, floor, [amount |-> amount, kwh |-> kwh])
                    ELSE bills
        /\ run' = [step |-> "save_bill", ok |-> ok]
        /\ UNCHANGED <<readings, previous_readings, charges, summary>>
        /\ UNCHANGED <<calcVars, validateVars, storeVars, periodVars>>

\* save_meter_reading for the rooms of a prefix of the roster, in roster order.
RECURSIVE SaveReadings(_, _, _, _)
SaveReadings(table, input, okRooms, i) ==
    IF i > Len(FlowRooms) THEN table
    ELSE LET room == FlowRooms[i]
             next == IF room \in okRooms THEN Upsert(table, room, input[room]) ELSE table
         IN  SaveReadings(next, input, okRooms, i + 1)

\* A run with the batch-save button clicked (lines 292-305): one
\* save_meter_reading per room of the roster, each in its own transaction,
\* each of which may fail.
ClickSaveReadings ==
    \E input \in [FlowRoomSet -> FlowReadingSet], okRooms \in SUBSET FlowRoomSet :
        /\ readings' = SaveReadings(readings, input, okRooms, 1)
        /\ run' = [step |-> "save_readings", success_count |-> Cardinality(okRooms)]
        /\ UNCHANGED <<bills, previous_readings, charges, summary>>
        /\ UNCHANGED <<calcVars, validateVars, storeVars, periodVars>>

\* A run with the calculate button clicked (lines 318-404).  A failed read
\* yields an empty frame or dict (storage.py:206-208, 271-273, 310-312).
ClickCalculate ==
    \E bills_ok \in BOOLEAN, readings_ok \in BOOLEAN, prev_ok \in BOOLEAN,
       save_clicked \in BOOLEAN :
      \E save_ok \in (IF save_clicked THEN BOOLEAN ELSE {FALSE}),
         meter \in (IF readings_ok THEN DictsOf(readings) ELSE {<<>>}) :
        LET prevDict == IF prev_ok THEN CHOOSE d \in DictsOf(previous_readings) : TRUE
                        ELSE <<>>
            r == calculation_step(IF bills_ok THEN bills ELSE <<>>, meter, prevDict,
                                  save_clicked, save_ok)
        IN  /\ run' = r
            /\ charges' = IF r.saved THEN ChargeTable(r.result[1]) ELSE charges
            /\ summary' = IF r.saved THEN <<SummaryRow(r.result[1])>> ELSE summary
            /\ UNCHANGED <<bills, readings, previous_readings>>
            /\ UNCHANGED <<calcVars, validateVars, storeVars, periodVars>>

NextFlow == ClickSaveBill \/ ClickSaveReadings \/ ClickCalculate

SpecFlow == InitFlow /\ [][NextFlow]_vars

-----------------------------------------------------------------------------
(* Properties of the calculation flow, checked under SpecFlow *)

CalcStep == run.step = "calculate"

\* The validator's verdict stated on the stored readings themselves; the
\* previous readings count when the run read them.
StoredReadingsValid ==
    /\ \A r \in DOMAIN readings : readings[r] >= 0
    /\ run.previous_read > 0 =>
          \A r \in DOMAIN readings \cap DOMAIN previous_readings :
              readings[r] >= previous_readings[r]

C2_RunOrder ==
    CalcStep =>
        /\ run.calculated =>
              /\ run.validated /\ run.valid /\ run.errors_shown = <<>>
              /\ run.readings_read = Cardinality(DOMAIN readings)
              /\ StoredReadingsValid
        /\ run.save_called => run.calculated /\ run.result # <<>>
        /\ run.saved => run.save_called
        /\ (run.validated /\ ~run.valid) =>
              /\ run.errors_shown # <<>>
              /\ ~StoredReadingsValid
              /\ ~run.calculated
              /\ run.result = <<>>
              /\ ~run.save_called

C2_SavedOnlyAfterPass ==
    (charges' # charges \/ summary' # summary) =>
        /\ run'.step = "calculate"
        /\ run'.validated /\ run'.valid /\ run'.calculated /\ run'.saved
        /\ summary' = <<SummaryRow(run'.result[1])>>

\* C2: calculate_all_rooms, and after it save_charge_results, run only after
\* validate_readings passed on the stored readings; a failed validation lists
\* its issues and neither computes nor saves a charge.
C2_ValidatorFirst == [](C2_RunOrder) /\ [][C2_SavedOnlyAfterPass]_vars

C2_Witness ==
    /\ CalcStep
    /\ run.validated /\ ~run.valid
    /\ Len(run.errors_shown) = Len(FlowRooms)
    /\ charges # <<>>
    /\ summary # <<>>

-----------------------------------------------------------------------------
(* Two calls on one calculator object: the first with the arguments drawn   *)
(* by Init, the second with the same bill amount and reading map and any    *)
(* aggregate consumption.  Reading maps come in every insertion order.      *)

TwiceAmountSet == {0, 1000}
TwiceKwhSet == {300 * Scale, 600 * Scale, 1000 * Scale}
TwiceReadingSet == {300 * Scale, 600 * Scale}

\* All sequences of distinct rooms of S.
RECURSIVE Orders(_)
Orders(S) ==
    IF S = {} THEN {<<>>}
    ELSE UNION {{<<r>> \o o : o \in Orders(S \ {r})} : r \in S}

AllOrderMaps(S, V) ==
    UNION {{[i \in 1..Len(o) |-> [room |-> o[i], kwh |-> f[o[i]]]] : o \in Orders(S)} :
           f \in [S -> V]}

TwiceReadingMaps == UNION {AllOrderMaps(S, TwiceReadingSet) :
                           S \in {T \in SUBSET Units : Cardinality(T) <= MaxRooms}}

InitTwice ==
    /\ pc = "ready"
    /\ taipower_amount \in TwiceAmountSet
    /\ taipower_kwh \in TwiceKwhSet
    /\ room_readings \in TwiceReadingMaps
    /\ raised = "none"
    /\ result = <<>>
    /\ divisions = 0
    /\ NewCalculator
    /\ NoFlow
    /\ NoValidate
    /\ NoStore
    /\ NoPeriod

\* A second call calculator.calculate_all_rooms(taipower_amount, kwh, room_readings)
\* on the same object; first_call keeps what the first call was given and gave.
CalculateAgain ==
    /\ pc = "done"
    /\ \E kwh \in TwiceKwhSet :
          LET out == calculate_all_rooms(taipower_amount, kwh, room_readings)
          IN  /\ taipower_kwh' = kwh
              /\ raised' = out.raised
              /\ result' = out.returned
              /\ divisions' = out.divisions
    /\ first_call' = <<[taipower_kwh |-> taipower_kwh, raised |-> raised, result |-> result]>>
    /\ pc' = "done2"
    /\ sharing_rooms' = fields_after_call(sharing_rooms)
    /\ UNCHANGED <<taipower_amount, room_readings>>
    /\ UNCHANGED <<flowVars, validateVars, storeVars, periodVars>>

NextTwice == Calculate \/ CalculateAgain

SpecTwice == InitTwice /\ [][NextTwice]_vars

-----------------------------------------------------------------------------
(* Properties of one and of two calls *)

First == first_call[1]

\* C11: a call whose readings exceed the aggregate consumption returns a result
\* with common consumption 0, and that result differs from the result of a call
\* whose common consumption is exactly 0, so that the caller can tell the clamp.
C11_ClampRecorded ==
    (/\ pc = "done2"
     /\ First.taipower_kwh - SumKwh(room_readings) < 0
     /\ taipower_kwh - SumKwh(room_readings) = 0) =>
        /\ First.raised = "none"
        /\ First.result # <<>>
        /\ First.result[1].public_kwh = 0
        /\ First.result # result

\* C12: a call with an empty reading map and positive aggregate consumption
\* raises an error and returns nothing.
C12_EmptyMapRejected ==
    (pc = "done" /\ room_readings = <<>> /\ taipower_kwh > 0) =>
        /\ raised # "none"
        /\ result = <<>>

\* C15: the rows are one per unit of the reading map, in ascending order of
\* unit identifier, whatever the insertion order of the map.
C15_RowsSorted ==
    (pc = "done" /\ result # <<>>) =>
        /\ Len(Rows) = Len(room_readings)
        /\ {Rows[i].room : i \in 1..Len(Rows)} = Keys(room_readings)
        /\ \A i \in 1..Len(Rows) : \A j \in 1..Len(Rows) :
              i < j => RoomLess(Rows[i].room, Rows[j].room)

C15_Witness ==
    /\ pc = "done"
    /\ result # <<>>
    /\ Len(room_readings) = 3
    /\ RoomLess(room_readings[2].room, room_readings[1].room)
    /\ RoomLess(room_readings[2].room, room_readings[3].room)
    /\ RoomLess(room_readings[3].room, room_readings[1].room)
    /\ Rows[1].room = room_readings[2].room

-----------------------------------------------------------------------------
(* One call of validate_readings on arguments drawn by Init.  arg_previous  *)
(* is <<>> when the argument is left out (None) and <<m>> when map m is     *)
(* passed; `if previous_readings:' treats None and the empty map alike.     *)

ValidateUnits == {"1A", "2A", "2B"}
ValidateCurrentSet == {-10 * Scale, 50 * Scale, 80 * Scale}
ValidatePreviousSet == {50 * Scale, 80 * Scale}

ValidateCurrentMaps ==
    UNION {AllOrderMaps(S, ValidateCurrentSet) : S \in SUBSET ValidateUnits}
ValidatePreviousMaps ==
    UNION {AllOrderMaps(S, ValidatePreviousSet) :
           S \in {T \in SUBSET ValidateUnits : Cardinality(T) <= 2}}

Previous == IF arg_previous = <<>> THEN <<>> ELSE arg_previous[1]

InitValidate ==
    /\ NoCalc
    /\ NoFlow
    /\ NoStore
    /\ NoPeriod
    /\ arg_current \in ValidateCurrentMaps
    /\ arg_previous \in {<<>>} \cup {<<m>> : m \in ValidatePreviousMaps}
    /\ verdict = <<>>

\* valid, errors = calculator.validate_readings(arg_current, arg_previous)
Validate ==
    /\ verdict = <<>>
    /\ verdict' = <<validate_readings(arg_current, Previous)>>
    /\ UNCHANGED <<arg_current, arg_previous>>
    /\ UNCHANGED <<calcVars, flowVars, storeVars, periodVars>>

NextValidate == Validate

SpecValidate == InitValidate /\ [][NextValidate]_vars

Verdict == verdict[1]
NegativeUnits == {r \in Keys(arg_current) : ValueOf(arg_current, r) < 0}
RegressedUnits == {r \in Keys(arg_current) \cap Keys(Previous) :
                      ValueOf(arg_current, r) < ValueOf(Previous, r)}
IssuesOf(r, kind) == {i \in 1..Len(Verdict.errors) :
                         Verdict.errors[i] = [room |-> r, kind |-> kind]}

\* C13: validate_readings returns ok = false exactly when some unit of the
\* current map is negative or some unit of both maps has current < previous;
\* units only in the previous map and an absent or empty previous map produce
\* no issue; current {1A: 50}, previous {1A: 80} gives one issue naming 1A.
C13_ValidatorVerdict ==
    verdict # <<>> =>
        /\ (~Verdict.ok) <=> (NegativeUnits # {} \/ RegressedUnits # {})
        /\ \A i \in 1..Len(Verdict.errors) : Verdict.errors[i].room \in Keys(arg_current)
        /\ Previous = <<>> =>
              \A i \in 1..Len(Verdict.errors) : Verdict.errors[i].kind # "regressed"
        /\ (/\ arg_current = <<[room |-> "1A", kwh |-> 50 * Scale]>>
            /\ Previous = <<[room |-> "1A", kwh |-> 80 * Scale]>>) =>
              /\ ~Verdict.ok
              /\ Len(Verdict.errors) = 1
              /\ Verdict.errors[1].room = "1A"

C13_Witness ==
    /\ verdict # <<>>
    /\ arg_current = <<[room |-> "1A", kwh |-> 50 * Scale]>>
    /\ Previous = <<[room |-> "1A", kwh |-> 80 * Scale]>>
    /\ ~Verdict.ok
    /\ Verdict.errors = <<[room |-> "1A", kind |-> "regressed"]>>

C14_AllIssues ==
    verdict # <<>> =>
        /\ Len(Verdict.errors) = Cardinality(NegativeUnits) + Cardinality(RegressedUnits)
        /\ \A r \in Keys(arg_current) :
              /\ Cardinality(IssuesOf(r, "negative")) = (IF r \in NegativeUnits THEN 1 ELSE 0)
              /\ Cardinality(IssuesOf(r, "regressed")) = (IF r \in RegressedUnits THEN 1 ELSE 0)
              /\ \A i \in IssuesOf(r, "negative") : \A j \in IssuesOf(r, "regressed") : i < j

C14_InputsKept == arg_current' = arg_current /\ arg_previous' = arg_previous

\* C14: validate_readings returns a value for invalid readings and lists every
\* problem: one issue per failed check per unit, each naming its unit, a unit's
\* negative-reading issue before its regression issue; the call leaves both
\* input maps as they were.
C14_ValidatorReportsAll == [](C14_AllIssues) /\ [][C14_InputsKept]_vars

C14_Witness ==
    /\ verdict # <<>>
    /\ ~Verdict.ok
    /\ \E r \in NegativeUnits \cap RegressedUnits :
          \E q \in RegressedUnits \ NegativeUnits : RoomLess(q, r)
    /\ Len(Verdict.errors) >= 3

-----------------------------------------------------------------------------
(* save_charge_results against the database, statement by statement.       *)
(*                                                                          *)
(* db is the committed content of electricity_charges and                   *)
(* electricity_period_summary.  tx[c] is the open transaction of caller c:  *)
(* the rows its DELETE has removed (and so locked), the rows it has         *)
(* inserted and its pending summary row, none of them visible to another    *)
(* transaction before commit.  The connection comes from psycopg2's pool    *)
(* with its defaults (no autocommit, READ COMMITTED): a statement sees what *)
(* was committed when it started, waits for a row another open transaction  *)
(* has locked, and a unique key held by a committed row makes INSERT raise. *)
(* The writer field of a charge row stands for the identity of the stored   *)
(* tuple (which transaction wrote it).                                      *)

SavePeriod == 1
OtherPeriod == 2

SaveAmount == 1000
SaveKwh == 1000 * Scale
SaveReadingMaps ==
    {<<[room |-> "1A", kwh |-> 300 * Scale]>>,
     <<[room |-> "2A", kwh |-> 300 * Scale]>>,
     <<[room |-> "1A", kwh |-> 300 * Scale], [room |-> "2A", kwh |-> 600 * Scale]>>}

\* The values of calculator.calculate_all_rooms that callers pass on.
SaveResults == {calculate_all_rooms(SaveAmount, SaveKwh, m).returned[1] : m \in SaveReadingMaps}

\* The tuple one INSERT INTO electricity_charges writes.
ChargeRow(period_id, charge, writer) ==
    [period_id |-> period_id, room_number |-> charge.room, room_kwh |-> charge.room_kwh,
     shared_kwh |-> charge.shared_kwh, total_kwh |-> charge.total_kwh,
     charge_amount |-> charge.charge, is_sharing_room |-> charge.is_sharing,
     writer |-> writer]

ChargeRows(period_id, res, writer) ==
    {ChargeRow(period_id, res.room_charges[i], writer) : i \in 1..Len(res.room_charges)}

\* The tuple the summary statement writes.
SummaryTuple(period_id, res) ==
    [period_id |-> period_id, unit_price |-> res.unit_price, public_kwh |-> res.public_kwh,
     shared_kwh_per_room |-> res.shared_kwh_per_room, total_charge |-> res.total_charge,
     taipower_amount |-> res.taipower_amount, difference |-> res.difference]

\* The database after a successful save of res for the period.
Stored(period_id, res, writer) ==
    [charges |-> ChargeRows(period_id, res, writer),
     summary |-> {SummaryTuple(period_id, res)}]

EmptyDb == [charges |-> {}, summary |-> {}]

Merge(d, e) == [charges |-> d.charges \cup e.charges, summary |-> d.summary \cup e.summary]

OfPeriod(d, period_id) ==
    [charges |-> {r \in d.charges : r.period_id = period_id},
     summary |-> {r \in d.summary : r.period_id = period_id}]

\* DELETE FROM electricity_charges WHERE period_id = %s, over the rows the
\* statement sees.
delete_where_period_none(rows, period_id) == {}

delete_where_period(rows, period_id) == {r \in rows : r.period_id = period_id}

\* conn.commit(): the transaction's writes become the committed content.
commit(d, t) ==
    [charges |-> (d.charges \ t.deleted) \cup t.inserted,
     summary |-> IF t.summary = <<>> THEN d.summary
                 ELSE {r \in d.summary : r.period_id # t.summary[1].period_id}
                      \cup {t.summary[1]}]

rollback_keeping_writes(d, t) == commit(d, t)

\* conn.rollback(): the committed content stays as it was.
rollback(d, t) == d

IdleTx ==
    [pc |-> "idle", result |-> <<>>, i |-> 1, snapshot |-> {}, deleted |-> {},
     inserted |-> {}, summary |-> <<>>, before |-> EmptyDb, returned |-> <<>>]

Active(c) == tx[c].pc \in {"delete", "deleting", "insert", "summary", "commit"}

Others(c) == {o \in DOMAIN tx : o # c /\ Active(o)}

\* What is stored at first: another period's result, and for the period either
\* nothing or an earlier result.
InitialDbs ==
    {Merge(Stored(OtherPeriod, o, "initial"), d) :
        o \in SaveResults,
        d \in {EmptyDb} \cup {Stored(SavePeriod, r, "initial") : r \in SaveResults}}

InitStore(callers) ==
    /\ NoCalc
    /\ NoFlow
    /\ NoValidate
    /\ NoPeriod
    /\ db \in InitialDbs
    /\ tx = [c \in callers |-> IdleTx]

\* try: with self.db._get_connection() as conn: cur = conn.cursor()
Enter(c, res) ==
    /\ tx' = [tx EXCEPT ![c] = [IdleTx EXCEPT !.pc = "delete", !.result = <<res>>,
                                              !.before = db]]
    /\ UNCHANGED db

BeginSave(c) ==
    /\ tx[c].pc = "idle"
    /\ \E res \in SaveResults : Enter(c, res)
    /\ UNCHANGED <<calcVars, flowVars, validateVars, periodVars>>

\* A later call of the same caller.
SaveAgain(c) ==
    /\ tx[c].pc = "returned"
    /\ \E res \in SaveResults : Enter(c, res)
    /\ UNCHANGED <<calcVars, flowVars, validateVars, periodVars>>

\* The DELETE starts: it sees the rows committed now.
DeleteStart(c) ==
    /\ tx[c].pc = "delete"
    /\ tx' = [tx EXCEPT ![c].pc = "deleting",
                        ![c].snapshot = delete_where_period(db.charges, SavePeriod)]
    /\ UNCHANGED db
    /\ UNCHANGED <<calcVars, flowVars, validateVars, periodVars>>

\* The DELETE completes once no row it saw is locked by another transaction;
\* rows another transaction has deleted and committed meanwhile are skipped.
DeleteFinish(c) ==
    /\ tx[c].pc = "deleting"
    /\ \A o \in Others(c) : tx[o].deleted \cap tx[c].snapshot = {}
    /\ tx' = [tx EXCEPT ![c].pc = "insert",
                        ![c].deleted = tx[c].snapshot \cap db.charges]
    /\ UNCHANGED db
    /\ UNCHANGED <<calcVars, flowVars, validateVars, periodVars>>

SameKey(r, q) == r.period_id = q.period_id /\ r.room_number = q.room_number

\* One INSERT INTO electricity_charges of the loop.  It waits while another
\* open transaction holds the key (an uncommitted insert, or a delete of the
\* committed row); it cannot succeed against a committed row with the key.
InsertRow(c) ==
    /\ tx[c].pc = "insert"
    /\ tx[c].i <= Len(tx[c].result[1].room_charges)
    /\ LET row == ChargeRow(SavePeriod, tx[c].result[1].room_charges[tx[c].i], c)
       IN  /\ \A o \in Others(c) : \A q \in tx[o].inserted : ~SameKey(row, q)
           /\ \A q \in db.charges \ tx[c].deleted : ~SameKey(row, q)
           /\ \A q \in tx[c].inserted : ~SameKey(row, q)
           /\ tx' = [tx EXCEPT ![c].inserted = @ \cup {row}, ![c].i = @ + 1]
    /\ UNCHANGED db
    /\ UNCHANGED <<calcVars, flowVars, validateVars, periodVars>>

\* INSERT INTO electricity_period_summary ... ON CONFLICT (period_id) DO UPDATE.
\* It waits while another open transaction has written the period's summary.
UpsertSummary(c) ==
    /\ tx[c].pc = "insert"
    /\ tx[c].i > Len(tx[c].result[1].room_charges)
    /\ \A o \in Others(c) : tx[o].summary = <<>>
    /\ tx' = [tx EXCEPT ![c].pc = "commit",
                        ![c].summary = <<SummaryTuple(SavePeriod, tx[c].result[1])>>]
    /\ UNCHANGED db
    /\ UNCHANGED <<calcVars, flowVars, validateVars, periodVars>>

\* return True, ... leaves the with block: conn.commit(), connection returned.
Commit(c) ==
    /\ tx[c].pc = "commit"
    /\ db' = commit(db, tx[c])
    /\ tx' = [tx EXCEPT ![c].pc = "returned", ![c].returned = <<TRUE>>,
                        ![c].snapshot = {}, ![c].deleted = {}, ![c].inserted = {},
                        ![c].summary = <<>>]
    /\ UNCHANGED <<calcVars, flowVars, validateVars, periodVars>>

\* Any statement or the commit raises: conn.rollback(), the exception is
\* re-raised, caught by save_charge_results and turned into (False, message).
Fail(c) ==
    /\ Active(c)
    /\ db' = rollback(db, tx[c])
    /\ tx' = [tx EXCEPT ![c].pc = "returned", ![c].returned = <<FALSE>>,
                        ![c].snapshot = {}, ![c].deleted = {}, ![c].inserted = {},
                        ![c].summary = <<>>]
    /\ UNCHANGED <<calcVars, flowVars, validateVars, periodVars>>

Statement(c) ==
    \/ DeleteStart(c)
    \/ DeleteFinish(c)
    \/ InsertRow(c)
    \/ UpsertSummary(c)
    \/ Commit(c)
    \/ Fail(c)

\* One caller, any number of calls one after another.
SoleCaller == {"A"}
InitSave == InitStore(SoleCaller)
NextSave == \E c \in SoleCaller : BeginSave(c) \/ SaveAgain(c) \/ Statement(c)
SpecSave == InitSave /\ [][NextSave]_vars

\* Two callers, one call each, statements interleaved.
TwoCallers == {"A", "B"}
InitSave2 == InitStore(TwoCallers)
NextSave2 == \E c \in TwoCallers : BeginSave(c) \/ Statement(c)
SpecSave2 == InitSave2 /\ [][NextSave2]_vars

-----------------------------------------------------------------------------
(* Properties of save_charge_results *)

Caller == tx["A"]

Rooms(rows) == {r.room_number : r \in rows}

RECURSIVE SumChargeAmount(_)
SumChargeAmount(rows) ==
    IF rows = {} THEN 0
    ELSE LET r == CHOOSE x \in rows : TRUE
         IN  r.charge_amount + SumChargeAmount(rows \ {r})

\* C17: a save is all-or-nothing for its period.  After a successful return the
\* committed rows of the period are exactly the rows of the new result with the
\* new summary; after a failed return, and at every moment before the return,
\* the committed rows and summary are those from before the call.  Another
\* period's rows and summary stay as they were.
C17_AllOrNothing ==
    Caller.pc # "idle" =>
        IF Caller.pc = "returned" /\ Caller.returned = <<TRUE>>
        THEN /\ OfPeriod(db, SavePeriod) = Stored(SavePeriod, Caller.result[1], "A")
             /\ OfPeriod(db, OtherPeriod) = OfPeriod(Caller.before, OtherPeriod)
        ELSE db = Caller.before

C17_Witness ==
    /\ Caller.pc = "returned"
    /\ Caller.returned = <<TRUE>>
    /\ Rooms(OfPeriod(Caller.before, SavePeriod).charges) = {"1A", "2A"}
    /\ Rooms(OfPeriod(db, SavePeriod).charges) = {"2A"}
    /\ OfPeriod(db, SavePeriod).summary = {SummaryTuple(SavePeriod, Caller.result[1])}
    /\ OfPeriod(db, SavePeriod).summary # OfPeriod(Caller.before, SavePeriod).summary

Content(rows) == {[r EXCEPT !.writer = "any"] : r \in rows}

Begun == {c \in DOMAIN tx : tx[c].pc # "idle"}

\* What the period may hold if it comes from one source: what was committed
\* when a call began, or the stored form of one call's result.
Sources ==
    {OfPeriod(tx[c].before, SavePeriod) : c \in Begun}
    \cup {Stored(SavePeriod, tx[c].result[1], c) : c \in Begun}

\* C18: under any interleaving of two saves on one period, the committed charge
\* rows and the committed summary of the period all come from a single source:
\* rows of one result are never stored with rows or the summary of the other.
C18_SingleSource ==
    Begun # {} =>
        \E s \in Sources :
            /\ Content(OfPeriod(db, SavePeriod).charges) \subseteq Content(s.charges)
            /\ OfPeriod(db, SavePeriod).summary \subseteq s.summary

\* C19: in every committed state each stored summary equals what the stored
\* charge rows of its period give: total_charge is the sum of their
\* charge_amount, and difference is total_charge - taipower_amount.
C19_SummaryDerivable ==
    \A s \in db.summary :
        /\ s.total_charge = SumChargeAmount(OfPeriod(db, s.period_id).charges)
        /\ s.difference = s.total_charge - s.taipower_amount

C19_Witness ==
    /\ Caller.pc = "returned"
    /\ Caller.returned = <<TRUE>>
    /\ OfPeriod(Caller.before, SavePeriod).summary # {}
    /\ \E s \in OfPeriod(db, SavePeriod).summary :
          /\ s \notin Caller.before.summary
          /\ OfPeriod(db, SavePeriod).charges # {}
          /\ s.total_charge = SumChargeAmount(OfPeriod(db, SavePeriod).charges)
          /\ s.total_charge > 0
          /\ s.difference # 0

-----------------------------------------------------------------------------
(* create_period against electricity_periods, statement by statement, for   *)
(* two callers that may call again and again.  periods is the committed     *)
(* content of the table, next_id the table's SERIAL sequence, creator[c]    *)
(* the call of caller c with the row it has inserted and not yet committed. *)

MaxPeriodId == 3

\* (year, month_start, month_end) as the period tab can pass them.
PeriodTriples == {<<2026, 1, 2>>, <<2026, 3, 4>>, <<2026, 2, 1>>}

PeriodCallers == {"A", "B"}

Triple(row) == <<row.period_year, row.period_month_start, row.period_month_end>>

\* SELECT id FROM electricity_periods WHERE the three columns match.
select_period(rows, t) == {row \in rows : Triple(row) = t}

unique_violation_never(rows, t) == FALSE

\* UNIQUE(period_year, period_month_start, period_month_end) against the
\* committed rows.
unique_violation(rows, t) == \E row \in rows : Triple(row) = t

NotCalling ==
    [pc |-> "idle", via |-> "none", triple |-> <<>>, inserted |-> {}, before |-> {},
     returned |-> <<>>]

InitPeriod ==
    /\ NoCalc
    /\ NoFlow
    /\ NoValidate
    /\ NoStore
    /\ periods = {}
    /\ next_id = 1
    /\ creator = [c \in PeriodCallers |-> NotCalling]

CanCall(c) == creator[c].pc \in {"idle", "returned", "refused"} /\ next_id <= MaxPeriodId

Call(c, via, at, t) ==
    creator' = [creator EXCEPT ![c] = [NotCalling EXCEPT !.pc = at, !.via = via, !.triple = t,
                                                         !.before = periods]]

\* storage.create_period(year, month_start, month_end) is called.
BeginCreate(c) ==
    /\ CanCall(c)
    /\ \E t \in PeriodTriples : Call(c, "storage", "select", t)
    /\ UNCHANGED <<periods, next_id>>
    /\ UNCHANGED <<calcVars, flowVars, validateVars, storeVars>>

\* The button of the period tab: month_end <= month_start shows an error,
\* otherwise storage.create_period is called.
ClickCreatePeriod(c) ==
    /\ CanCall(c)
    /\ \E t \in PeriodTriples :
          IF t[3] <= t[2] THEN Call(c, "tab", "refused", t) ELSE Call(c, "tab", "select", t)
    /\ UNCHANGED <<periods, next_id>>
    /\ UNCHANGED <<calcVars, flowVars, validateVars, storeVars>>

\* db.create_electricity_period(year, month_start, month_end) is called: it
\* goes to its INSERT without a SELECT.
BeginCreateElectricityPeriod(c) ==
    /\ CanCall(c)
    /\ \E t \in PeriodTriples : Call(c, "db", "insert", t)
    /\ UNCHANGED <<periods, next_id>>
    /\ UNCHANGED <<calcVars, flowVars, validateVars, storeVars>>

\* The SELECT finds a committed row: return False, existing[0], ... (the with
\* block commits a transaction that wrote nothing).
SelectExisting(c) ==
    /\ creator[c].pc = "select"
    /\ select_period(periods, creator[c].triple) # {}
    /\ \E row \in select_period(periods, creator[c].triple) :
          creator' = [creator EXCEPT ![c].pc = "returned",
                                     ![c].returned = <<[ok |-> FALSE, id |-> row.id]>>]
    /\ UNCHANGED <<periods, next_id>>
    /\ UNCHANGED <<calcVars, flowVars, validateVars, storeVars>>

\* The SELECT finds nothing.
SelectNone(c) ==
    /\ creator[c].pc = "select"
    /\ select_period(periods, creator[c].triple) = {}
    /\ creator' = [creator EXCEPT ![c].pc = "insert"]
    /\ UNCHANGED <<periods, next_id>>
    /\ UNCHANGED <<calcVars, flowVars, validateVars, storeVars>>

\* The INSERT waits while another open transaction has inserted the triple.
InsertWaits(c) ==
    \E o \in PeriodCallers \ {c} : \E row \in creator[o].inserted :
        Triple(row) = creator[c].triple

\* INSERT ... RETURNING id succeeds.
InsertPeriod(c) ==
    /\ creator[c].pc = "insert"
    /\ ~InsertWaits(c)
    /\ ~unique_violation(periods, creator[c].triple)
    /\ creator' = [creator EXCEPT ![c].pc = "commit",
                                  ![c].inserted =
                                      {[id |-> next_id, period_year |-> creator[c].triple[1],
                                        period_month_start |-> creator[c].triple[2],
                                        period_month_end |-> creator[c].triple[3]]}]
    /\ next_id' = next_id + 1
    /\ UNCHANGED periods
    /\ UNCHANGED <<calcVars, flowVars, validateVars, storeVars>>

\* The INSERT raises on the unique constraint (the sequence value is spent):
\* rollback, and the except clause returns False, -1, ...
InsertDuplicate(c) ==
    /\ creator[c].pc = "insert"
    /\ ~InsertWaits(c)
    /\ unique_violation(periods, creator[c].triple)
    /\ creator' = [creator EXCEPT ![c].pc = "returned",
                                  ![c].returned = <<[ok |-> FALSE, id |-> -1]>>]
    /\ next_id' = next_id + 1
    /\ UNCHANGED periods
    /\ UNCHANGED <<calcVars, flowVars, validateVars, storeVars>>

\* return True, period_id, ... leaves the with block: conn.commit().
CommitCreate(c) ==
    /\ creator[c].pc = "commit"
    /\ periods' = periods \cup creator[c].inserted
    /\ \E row \in creator[c].inserted :
          creator' = [creator EXCEPT ![c].pc = "returned", ![c].inserted = {},
                                     ![c].returned = <<[ok |-> TRUE, id |-> row.id]>>]
    /\ UNCHANGED next_id
    /\ UNCHANGED <<calcVars, flowVars, validateVars, storeVars>>

\* A statement or the commit raises for another reason: rollback, and the
\* except clause returns False, -1, ...
FailCreate(c) ==
    /\ creator[c].pc \in {"select", "insert", "commit"}
    /\ creator' = [creator EXCEPT ![c].pc = "returned", ![c].inserted = {},
                                  ![c].returned = <<[ok |-> FALSE, id |-> -1]>>]
    /\ UNCHANGED <<periods, next_id>>
    /\ UNCHANGED <<calcVars, flowVars, validateVars, storeVars>>

NextPeriod ==
    \E c \in PeriodCallers :
        \/ BeginCreate(c)
        \/ ClickCreatePeriod(c)
        \/ BeginCreateElectricityPeriod(c)
        \/ SelectExisting(c)
        \/ SelectNone(c)
        \/ InsertPeriod(c)
        \/ InsertDuplicate(c)
        \/ CommitCreate(c)
        \/ FailCreate(c)

SpecPeriod == InitPeriod /\ [][NextPeriod]_vars

\* C20: the store holds at most one period per (year, start month, end month),
\* whatever the interleaving of create_period calls; a call for a triple that
\* was already stored returns ok = false as a value and adds no row.
C20_NoDuplicatePeriod ==
    /\ \A p \in periods : \A q \in periods : (Triple(p) = Triple(q) \/ p.id = q.id) => p = q
    /\ \A c \in PeriodCallers :
          (/\ creator[c].pc = "returned"
           /\ select_period(creator[c].before, creator[c].triple) # {}) =>
              /\ ~creator[c].returned[1].ok
              /\ select_period(periods, creator[c].triple)
                    = select_period(creator[c].before, creator[c].triple)

C20_Witness ==
    /\ creator["A"].pc = "returned"
    /\ creator["A"].triple = <<2026, 1, 2>>
    /\ creator["A"].returned[1].ok
    /\ creator["B"].pc = "returned"
    /\ creator["B"].triple = <<2026, 1, 2>>
    /\ select_period(creator["B"].before, <<2026, 1, 2>>) # {}
    /\ creator["B"].returned = <<[ok |-> FALSE, id |-> creator["A"].returned[1].id]>>
    /\ Cardinality(select_period(periods, <<2026, 1, 2>>)) = 1

\* C21: every stored period has end month > start month, whichever creation
\* operation produced it.
C21_EndAfterStart ==
    \A p \in periods : p.period_month_end > p.period_month_start

-----------------------------------------------------------------------------
(* save_taipower_bill and save_meter_reading, called one after another.     *)
(* Here db holds electricity_taipower_bills and electricity_meter_readings  *)
(* as sets of rows, and tx remembers the last call and, for every key, the  *)
(* values of its last successful save.  A call is one statement in its own  *)
(* transaction.  Consumption is passed in thousandths of a kWh and stored   *)
(* in a DECIMAL(10,2) column, that is in hundredths.                        *)

Milli == 1000

BillKeys == {<<1, "1F">>, <<1, "2-4F">>, <<2, "1F">>}
ReadingKeys == {<<1, "1A">>, <<1, "2A">>, <<2, "1A">>}
UpsertAmountSet == {1000}
UpsertKwhSet == {300 * Milli, 150333}

\* A value as a DECIMAL(10,2) column keeps it: the nearest hundredth, halves
\* away from zero.
decimal_10_2(milli) ==
    IF milli >= 0 THEN (milli + 5) \div (Milli \div Scale)
    ELSE -((-milli + 5) \div (Milli \div Scale))

insert_row(rows, key, value) == rows \cup {[key |-> key, value |-> value]}

\* INSERT ... ON CONFLICT (key) DO UPDATE SET the value columns.
upsert_row(rows, key, value) ==
    {r \in rows : r.key # key} \cup {[key |-> key, value |-> value]}

InitUpsert ==
    /\ NoCalc
    /\ NoFlow
    /\ NoValidate
    /\ NoPeriod
    /\ db = [bills |-> {}, readings |-> {}]
    /\ tx = [call |-> <<>>, bill |-> {}, reading |-> {}]

Remember(op, key, value, ok) ==
    tx' = [tx EXCEPT !.call = <<[op |-> op, key |-> key, value |-> value, ok |-> ok]>>,
                     ![op] = IF ok THEN {r \in @ : r.key # key}
                                        \cup {[key |-> key, value |-> value]}
                             ELSE @]

\* storage.save_taipower_bill(period_id, floor, amount, kwh); ok is FALSE when
\* the statement or the commit raises and the call returns (False, message).
SaveTaipowerBill ==
    \E key \in BillKeys, amount \in UpsertAmountSet, kwh \in UpsertKwhSet, ok \in BOOLEAN :
        /\ db' = IF ok
                 THEN [db EXCEPT !.bills = upsert_row(@, key, [amount |-> amount,
                                                                kwh |-> decimal_10_2(kwh)])]
                 ELSE db
        /\ Remember("bill", key, [amount |-> amount, kwh |-> kwh], ok)
        /\ UNCHANGED <<calcVars, flowVars, validateVars, periodVars>>

\* storage.save_meter_reading(period_id, room, reading, reading_date)
SaveMeterReading ==
    \E key \in ReadingKeys, reading \in UpsertKwhSet, ok \in BOOLEAN :
        /\ db' = IF ok
                 THEN [db EXCEPT !.readings = upsert_row(@, key, decimal_10_2(reading))]
                 ELSE db
        /\ Remember("reading", key, reading, ok)
        /\ UNCHANGED <<calcVars, flowVars, validateVars, periodVars>>

NextUpsert == SaveTaipowerBill \/ SaveMeterReading

SpecUpsert == InitUpsert /\ [][NextUpsert]_vars

LastSaved(op, key) == {r.value : r \in {q \in tx[op] : q.key = key}}
RowsOfKey(rows, key) == {r \in rows : r.key = key}

\* C22 as stated: every row holds the very values of the last successful save.
C22_Original ==
    /\ \A key \in BillKeys : \A r \in RowsOfKey(db.bills, key) :
          \A v \in LastSaved("bill", key) :
              r.value.amount = v.amount /\ r.value.kwh * (Milli \div Scale) = v.kwh
    /\ \A key \in ReadingKeys : \A r \in RowsOfKey(db.readings, key) :
          \A v \in LastSaved("reading", key) : r.value * (Milli \div Scale) = v

C22_OneRowLastWrite ==
    /\ \A key \in BillKeys :
          /\ Cardinality(RowsOfKey(db.bills, key)) <= 1
          /\ {r.value : r \in RowsOfKey(db.bills, key)}
                = {[amount |-> v.amount, kwh |-> decimal_10_2(v.kwh)] :
                       v \in LastSaved("bill", key)}
    /\ \A key \in ReadingKeys :
          /\ Cardinality(RowsOfKey(db.readings, key)) <= 1
          /\ {r.value : r \in RowsOfKey(db.readings, key)}
                = {decimal_10_2(v) : v \in LastSaved("reading", key)}

C22_StepKeepsOthers ==
    /\ \A r \in db.bills :
          (tx'.call[1].op # "bill" \/ tx'.call[1].key # r.key \/ ~tx'.call[1].ok)
              => r \in db'.bills
    /\ \A r \in db.readings :
          (tx'.call[1].op # "reading" \/ tx'.call[1].key # r.key \/ ~tx'.call[1].ok)
              => r \in db'.readings
    /\ (tx.call # <<>> /\ tx'.call[1].op = tx.call[1].op /\ tx'.call = tx.call
           /\ tx.call[1].ok) => db' = db

\* C22: after any sequence of saves there is at most one row per key, holding
\* the values of the last successful save for the key as the DECIMAL(10,2)
\* columns keep them (consumption to the nearest hundredth); a save repeated
\* with the same values leaves the state as it is, and a save leaves the rows
\* of other keys as they are.
C22_UpsertLastWriteWins == [](C22_OneRowLastWrite) /\ [][C22_StepKeepsOthers]_vars

C22_Witness ==
    /\ tx.call # <<>>
    /\ tx.call[1].ok
    /\ tx.call[1].op = "reading"
    /\ tx.call[1].key = <<1, "1A">>
    /\ tx.call[1].value = 150333
    /\ RowsOfKey(db.readings, <<1, "1A">>) = {[key |-> <<1, "1A">>, value |-> 15033]}
    /\ RowsOfKey(db.readings, <<1, "2A">>) # {}
    /\ RowsOfKey(db.bills, <<1, "1F">>) # {}

-----------------------------------------------------------------------------
(* The batch save of the calculation tab, one save_meter_reading call per   *)
(* room, each in its own transaction, next to a reader of the same period   *)
(* (another session calling get_meter_readings).  tx holds the position of  *)
(* the loop, the submitted map, the rows from before the click and what the *)
(* reader saw last.                                                         *)

BatchPeriod == 1
BatchReadingSet == {100 * Milli, 200 * Milli}

ReadingRows(period_id, m) ==
    {[key |-> <<period_id, m[i].room>>, value |-> decimal_10_2(m[i].kwh)] : i \in 1..Len(m)}

BatchInputs ==
    {[i \in 1..Len(FlowRooms) |-> [room |-> FlowRooms[i], kwh |-> f[FlowRooms[i]]]] :
        f \in [FlowRoomSet -> BatchReadingSet]}

InitBatch ==
    /\ NoCalc
    /\ NoFlow
    /\ NoValidate
    /\ NoPeriod
    /\ \E m \in {<<>>} \cup BatchInputs : db = [readings |-> ReadingRows(BatchPeriod, m)]
    /\ tx = [pc |-> "idle", input |-> <<>>, i |-> 1, old |-> {}, seen |-> <<>>]

\* The button is clicked with room_readings filled from the inputs.
ClickBatchSave ==
    /\ tx.pc \in {"idle", "done"}
    /\ \E m \in BatchInputs :
          tx' = [pc |-> "saving", input |-> m, i |-> 1, old |-> db.readings, seen |-> <<>>]
    /\ UNCHANGED db
    /\ UNCHANGED <<calcVars, flowVars, validateVars, periodVars>>

\* One turn of the loop: ok, msg = storage.save_meter_reading(...).
BatchSaveOne ==
    /\ tx.pc = "saving"
    /\ \E ok \in BOOLEAN :
          db' = IF ok
                THEN [db EXCEPT !.readings =
                         upsert_row(@, <<BatchPeriod, tx.input[tx.i].room>>,
                                    decimal_10_2(tx.input[tx.i].kwh))]
                ELSE db
    /\ tx' = [tx EXCEPT !.i = @ + 1,
                        !.pc = IF tx.i = Len(tx.input) THEN "done" ELSE "saving"]
    /\ UNCHANGED <<calcVars, flowVars, validateVars, periodVars>>

\* storage.get_meter_readings(period_id) in another session.
ReadMeterReadings ==
    /\ tx.pc # "idle"
    /\ tx' = [tx EXCEPT !.seen = <<{r \in db.readings : r.key[1] = BatchPeriod}>>]
    /\ UNCHANGED db
    /\ UNCHANGED <<calcVars, flowVars, validateVars, periodVars>>

NextBatch == ClickBatchSave \/ BatchSaveOne \/ ReadMeterReadings

SpecBatch == InitBatch /\ [][NextBatch]_vars

\* C23: what a reader sees while the batch save runs, or after it, is the
\* period's readings from before the click or the submitted map saved whole,
\* never some units new and the others old.
C23_AtomicBatch ==
    tx.seen # <<>> =>
        \/ tx.seen[1] = tx.old
        \/ tx.seen[1] = ReadingRows(BatchPeriod, tx.input)

-----------------------------------------------------------------------------
(* get_previous_readings over a store of periods and readings.  Period ids  *)
(* follow creation order; PreviousCalendar gives period id its (year,       *)
(* month_start, month_end), which need not follow that order.  tx holds the *)
(* argument and what the call returned.                                     *)

PreviousCalendar == <<<<2026, 3, 4>>, <<2026, 1, 2>>, <<2025, 11, 12>>, <<2026, 5, 6>>>>

PeriodRow(id) ==
    [id |-> id, period_year |-> PreviousCalendar[id][1],
     period_month_start |-> PreviousCalendar[id][2],
     period_month_end |-> PreviousCalendar[id][3]]

Before(q, r) ==
    \/ q.period_year < r.period_year
    \/ q.period_year = r.period_year /\ q.period_month_start < r.period_month_start

ReadingDict(rows, period_id) ==
    {<<r.key[2], r.value>> : r \in {q \in rows : q.key[1] = period_id}}

get_previous_readings_by_calendar(rows, meter, current_period_id) ==
    LET earlier == {q \in rows : q.id < current_period_id}
    IN  IF earlier = {} THEN {}
        ELSE ReadingDict(meter, (CHOOSE q \in earlier : \A r \in earlier : ~Before(q, r)).id)

\* SELECT id ... WHERE id < %s ORDER BY id DESC LIMIT 1, then the readings of
\* that period as a dict.
get_previous_readings(rows, meter, current_period_id) ==
    LET earlier == {q \in rows : q.id < current_period_id}
    IN  IF earlier = {} THEN {}
        ELSE ReadingDict(meter, (CHOOSE q \in earlier : \A r \in earlier : r.id <= q.id).id)

InitPrevious ==
    /\ NoCalc
    /\ NoFlow
    /\ NoValidate
    /\ next_id = MaxPeriodId + 1
    /\ creator = <<>>
    /\ \E ids \in SUBSET (1..MaxPeriodId) :
          /\ periods = {PeriodRow(id) : id \in ids}
          /\ \E f \in [ids -> {0} \cup BatchReadingSet] :
                db = [readings |-> {[key |-> <<id, "1A">>, value |-> decimal_10_2(f[id])] :
                                       id \in {i \in ids : f[i] # 0}}]
    /\ tx = [pc |-> "idle", current_period_id |-> 0, ok |-> TRUE, returned |-> {}]

\* storage.get_previous_readings(current_period_id); ok is FALSE when a
\* statement raises, which the except clause turns into {}.
GetPreviousReadings ==
    /\ tx.pc = "idle"
    /\ \E id \in 1..(MaxPeriodId + 1), ok \in BOOLEAN :
          tx' = [pc |-> "returned", current_period_id |-> id, ok |-> ok,
                 returned |-> IF ok THEN get_previous_readings(periods, db.readings, id)
                              ELSE {}]
    /\ UNCHANGED db
    /\ UNCHANGED <<calcVars, flowVars, validateVars, periodVars>>

NextPrevious == GetPreviousReadings

SpecPrevious == InitPrevious /\ [][NextPrevious]_vars

\* C24: a lookup that does not fail returns the reading map of the existing
\* period with the greatest id below the argument, whatever the periods'
\* calendar, and the empty map when no period has a smaller id.
C24_PreviousById ==
    (tx.pc = "returned" /\ tx.ok) =>
        /\ (\A q \in periods : q.id >= tx.current_period_id) => tx.returned = {}
        /\ \A q \in periods :
              (/\ q.id < tx.current_period_id
               /\ \A r \in periods : ~(q.id < r.id /\ r.id < tx.current_period_id))
                  => tx.returned = ReadingDict(db.readings, q.id)

C24_Witness ==
    /\ tx.pc = "returned"
    /\ tx.ok
    /\ tx.current_period_id = 3
    /\ {q.id : q \in periods} = {1, 2, 3}
    /\ tx.returned = ReadingDict(db.readings, 2)
    /\ tx.returned # {}
    /\ ReadingDict(db.readings, 1) # {}
    /\ tx.returned # ReadingDict(db.readings, 1)

-----------------------------------------------------------------------------
(* ElectricityConfig.calculate_progressive_fee.  Consumption and bracket    *)
(* limits are in hundredths of a kWh, rates and fees in hundredths of a     *)
(* currency unit; the last bracket (float('inf')) is the unbounded one.     *)

Tier(limit, rate) == [bounded |-> TRUE, limit |-> limit * Scale, rate |-> rate]
LastTier(rate) == [bounded |-> FALSE, limit |-> 0, rate |-> rate]

TIER_SUMMER ==
    <<Tier(120, 163), Tier(330, 238), Tier(500, 352), Tier(700, 480), Tier(1000, 566),
      LastTier(641)>>

TIER_NON_SUMMER ==
    <<Tier(120, 163), Tier(330, 210), Tier(500, 289), Tier(700, 394), Tier(1000, 460),
      LastTier(503)>>

Min(a, b) == IF a <= b THEN a ELSE b

\* The loop over the brackets from bracket i on; total is in 1/Scale of a fee unit.
RECURSIVE tier_loop_from_zero(_, _, _, _, _)
tier_loop_from_zero(tiers, i, remaining, prev_limit, total) ==
    IF i > Len(tiers) \/ remaining <= 0 THEN total
    ELSE LET tier_kwh == IF tiers[i].bounded THEN Min(remaining, tiers[i].limit)
                         ELSE remaining
         IN  tier_loop_from_zero(tiers, i + 1, remaining - tier_kwh, tiers[i].limit,
                                 total + tier_kwh * tiers[i].rate)

RECURSIVE tier_loop(_, _, _, _, _)
tier_loop(tiers, i, remaining, prev_limit, total) ==
    IF i > Len(tiers) \/ remaining <= 0 THEN total
    ELSE LET tier_kwh == IF tiers[i].bounded THEN Min(remaining, tiers[i].limit - prev_limit)
                         ELSE remaining
         IN  tier_loop(tiers, i + 1, remaining - tier_kwh, tiers[i].limit,
                       total + tier_kwh * tiers[i].rate)

calculate_progressive_fee(kwh, is_summer) ==
    RoundHalfEven(tier_loop(IF is_summer THEN TIER_SUMMER ELSE TIER_NON_SUMMER, 1, kwh, 0, 0),
                  Scale)

\* Consumptions at and around the bracket limits.
FeeKwhSet ==
    {0, 1, 50, 120 * Scale - 1, 120 * Scale, 120 * Scale + 1, 330 * Scale, 330 * Scale + 50,
     500 * Scale, 700 * Scale, 1000 * Scale, 1000 * Scale + 1, 1200 * Scale}

InitFee ==
    /\ NoCalc
    /\ NoFlow
    /\ NoValidate
    /\ NoPeriod
    /\ db = [charges |-> {}, summary |-> {}]
    /\ \E kwh \in FeeKwhSet, more \in FeeKwhSet, is_summer \in BOOLEAN :
          /\ kwh <= more
          /\ tx = [pc |-> "idle", kwh |-> kwh, more |-> more, is_summer |-> is_summer,
                   fee |-> 0, fee_more |-> 0]

\* Two calls for the same season.
CalculateFees ==
    /\ tx.pc = "idle"
    /\ tx' = [tx EXCEPT !.pc = "returned",
                        !.fee = calculate_progressive_fee(tx.kwh, tx.is_summer),
                        !.fee_more = calculate_progressive_fee(tx.more, tx.is_summer)]
    /\ UNCHANGED db
    /\ UNCHANGED <<calcVars, flowVars, validateVars, periodVars>>

NextFee == CalculateFees

SpecFee == InitFee /\ [][NextFee]_vars

\* The part of kwh that lies in bracket i, times the bracket's rate.
BracketFee(tiers, i, kwh) ==
    LET lower == IF i = 1 THEN 0 ELSE tiers[i - 1].limit
        upper == IF tiers[i].bounded THEN Min(kwh, tiers[i].limit) ELSE kwh
    IN  IF upper > lower THEN (upper - lower) * tiers[i].rate ELSE 0

RECURSIVE BracketSum(_, _, _)
BracketSum(tiers, i, kwh) ==
    IF i > Len(tiers) THEN 0 ELSE BracketFee(tiers, i, kwh) + BracketSum(tiers, i + 1, kwh)

FeeTiers == IF tx.is_summer THEN TIER_SUMMER ELSE TIER_NON_SUMMER

\* C25 as stated: the fee is the sum over the brackets itself.
C25_Original ==
    tx.pc = "returned" => tx.fee * Scale = BracketSum(FeeTiers, 1, tx.kwh)

\* C25: for a fixed season the fee does not decrease when consumption grows,
\* the fee of consumption 0 is 0, and the fee is the sum over the brackets of
\* the consumption inside the bracket times the bracket rate, rounded to 2
\* decimals.
C25_TierMonotone ==
    tx.pc = "returned" =>
        /\ tx.fee <= tx.fee_more
        /\ tx.kwh = 0 => tx.fee = 0
        /\ 2 * Abs(tx.fee * Scale - BracketSum(FeeTiers, 1, tx.kwh)) <= Scale
        /\ tx.kwh % Scale = 0 => tx.fee * Scale = BracketSum(FeeTiers, 1, tx.kwh)

C25_Witness ==
    /\ tx.pc = "returned"
    /\ tx.is_summer
    /\ tx.kwh = 120 * Scale + 1
    /\ tx.more = 1200 * Scale
    /\ tx.fee < tx.fee_more
    /\ tx.fee * Scale # BracketSum(FeeTiers, 1, tx.kwh)

-----------------------------------------------------------------------------
(* What the rounding of the per-unit share does to the consumption total *)

\* C26: without clamping and with a sharing unit in the map, the rows' total
\* consumption differs from the aggregate consumption by at most 0.005 kWh per
\* sharing unit, and equals it when the common consumption divides evenly by
\* the sharing-unit count; with no sharing unit in the map the total is the
\* sum of the own readings and no row carries any of the common consumption.
C26_ShareRounding ==
    (pc = "done" /\ result # <<>> /\ NotClamped) =>
        IF Res.sharing_room_count > 0
        THEN /\ 2 * Abs(SumTotalKwh(Rows) - taipower_kwh) <= Res.sharing_room_count
             /\ Res.public_kwh % Res.sharing_room_count = 0 => SumTotalKwh(Rows) = taipower_kwh
        ELSE /\ SumTotalKwh(Rows) = SumKwh(room_readings)
             /\ \A i \in 1..Len(Rows) :
                   Rows[i].shared_kwh = 0 /\ Rows[i].total_kwh = Rows[i].room_kwh

C26_Witness ==
    /\ pc = "done"
    /\ result # <<>>
    /\ NotClamped
    /\ Res.sharing_room_count = 3
    /\ Res.public_kwh % 3 = 2
    /\ SumTotalKwh(Rows) = taipower_kwh + 1

-----------------------------------------------------------------------------
(* The calculation flow when the previous readings cannot be read *)

-----------------------------------------------------------------------------
(* SupabaseDB._get_connection used by two callers over a pool of two        *)
(* connections.  Here db holds the pool's free connections and the work     *)
(* committed so far; tx[c] is caller c's use of the context manager: where  *)
(* it is, the connection it holds, the work of its block that is not yet    *)
(* committed, how the block ended and how often it gave a connection back.  *)

Connections == {"conn1", "conn2"}

NotUsing ==
    [pc |-> "idle", conn |-> {}, pending |-> {}, block |-> "none", commit_ok |-> FALSE,
     rolled_back |-> FALSE, returns |-> 0, outcome |-> "none"]

InitConn ==
    /\ NoCalc
    /\ NoFlow
    /\ NoValidate
    /\ NoPeriod
    /\ db = [pool |-> Connections, committed |-> {}]
    /\ tx = [c \in TwoCallers |-> NotUsing]

return_connection_dropped(pool, conn) == pool

\* self._pool.putconn(conn)
return_connection(pool, conn) == pool \cup conn

\* conn = self.pool.get_connection(): a free connection, or an exception
\* (pool not initialized or exhausted) with conn still None, which the except
\* clause re-raises without a rollback and the finally clause passes over.
GetConnection(c) ==
    /\ tx[c].pc = "idle"
    /\ \/ \E k \in db.pool :
             /\ db' = [db EXCEPT !.pool = @ \ {k}]
             /\ tx' = [tx EXCEPT ![c].pc = "block", ![c].conn = {k}]
       \/ /\ tx' = [tx EXCEPT ![c].pc = "done", ![c].outcome = "raised"]
          /\ UNCHANGED db
    /\ UNCHANGED <<calcVars, flowVars, validateVars, periodVars>>

\* yield conn: the block of the with statement does its work and falls
\* through, returns early, or raises.
RunBlock(c) ==
    /\ tx[c].pc = "block"
    /\ \E how \in {"falls_through", "returns", "raises"} :
          tx' = [tx EXCEPT ![c].pc = IF how = "raises" THEN "except" ELSE "commit",
                           ![c].block = how, ![c].pending = {c}]
    /\ UNCHANGED db
    /\ UNCHANGED <<calcVars, flowVars, validateVars, periodVars>>

\* conn.commit(), which may itself raise.
CommitWork(c) ==
    /\ tx[c].pc = "commit"
    /\ \/ /\ db' = [db EXCEPT !.committed = @ \cup tx[c].pending]
          /\ tx' = [tx EXCEPT ![c].pc = "finally", ![c].pending = {}, ![c].commit_ok = TRUE,
                              ![c].outcome = "returned"]
       \/ /\ tx' = [tx EXCEPT ![c].pc = "except"]
          /\ UNCHANGED db
    /\ UNCHANGED <<calcVars, flowVars, validateVars, periodVars>>

\* except Exception: conn.rollback(); raise
RollbackWork(c) ==
    /\ tx[c].pc = "except"
    /\ tx' = [tx EXCEPT ![c].pc = "finally", ![c].pending = {}, ![c].rolled_back = TRUE,
                        ![c].outcome = "raised"]
    /\ UNCHANGED db
    /\ UNCHANGED <<calcVars, flowVars, validateVars, periodVars>>

\* finally: self.pool.return_connection(conn)
ReturnConnection(c) ==
    /\ tx[c].pc = "finally"
    /\ db' = [db EXCEPT !.pool = return_connection(@, tx[c].conn)]
    /\ tx' = [tx EXCEPT ![c].pc = "done", ![c].conn = {}, ![c].returns = @ + 1]
    /\ UNCHANGED <<calcVars, flowVars, validateVars, periodVars>>

NextConn ==
    \E c \in TwoCallers :
        \/ GetConnection(c)
        \/ RunBlock(c)
        \/ CommitWork(c)
        \/ RollbackWork(c)
        \/ ReturnConnection(c)

SpecConn == InitConn /\ [][NextConn]_vars

Held == UNION {tx[c].conn : c \in TwoCallers}

\* C28: every connection is in the pool or held by one running use; a finished
\* use that took a connection gave it back exactly once; its work is committed
\* exactly when its block ended without an exception (falling through or
\* returning early) and the commit succeeded, and otherwise it was rolled back
\* and the use ended by raising; no uncommitted work is left.
C28_ConnectionDiscipline ==
    /\ db.pool \cup Held = Connections
    /\ db.pool \cap Held = {}
    /\ \A c \in TwoCallers : \A d \in TwoCallers : c # d => tx[c].conn \cap tx[d].conn = {}
    /\ \A c \in TwoCallers :
          /\ tx[c].conn # {} <=> tx[c].pc \in {"block", "commit", "except", "finally"}
          /\ tx[c].pc = "done" =>
                /\ tx[c].pending = {}
                /\ tx[c].returns = (IF tx[c].block = "none" THEN 0 ELSE 1)
                /\ (c \in db.committed)
                      <=> (tx[c].block \in {"falls_through", "returns"} /\ tx[c].commit_ok)
                /\ (c \in db.committed) <=> tx[c].outcome = "returned"
                /\ (c \notin db.committed /\ tx[c].block # "none")
                      => (tx[c].rolled_back /\ tx[c].outcome = "raised")

C28_Witness ==
    /\ tx["A"].pc = "done"
    /\ tx["A"].block = "returns"
    /\ tx["A"].outcome = "returned"
    /\ "A" \in db.committed
    /\ tx["B"].pc = "done"
    /\ tx["B"].block = "falls_through"
    /\ tx["B"].rolled_back
    /\ tx["B"].outcome = "raised"
    /\ "B" \notin db.committed
    /\ db.pool = Connections

-----------------------------------------------------------------------------
(* add_tenant, update_tenant, upsert_tenant and delete_tenant of SupabaseDB *)
(* for two callers.  Here db holds the tenants table (id, room_number,      *)
(* is_active) with its id sequence, and tx[c] the call caller c is in:      *)
(* add_tenant is a SELECT COUNT followed by an INSERT in one transaction,   *)
(* the others are a single UPDATE.  The sources create no constraint on     *)
(* the table.                                                               *)

MaxTenants == 3

TenantRooms == {"1A", "2A"}

ActiveIn(rows, room) == {t \in rows : t.room_number = room /\ t.is_active}

InitTenant ==
    /\ NoCalc
    /\ NoFlow
    /\ NoValidate
    /\ NoPeriod
    /\ db = [tenants |-> {}, next_id |-> 1]
    /\ tx = [c \in TwoCallers |-> [pc |-> "idle", room |-> "none", ok |-> TRUE]]

\* add_tenant(room, ...), also reached through upsert_tenant without a
\* tenant_id, up to its SELECT COUNT(*): an occupied room returns
\* (False, message).
AddTenantSelect(c) ==
    /\ tx[c].pc = "idle"
    /\ db.next_id <= MaxTenants
    /\ \E room \in TenantRooms :
          tx' = [tx EXCEPT ![c] = IF ActiveIn(db.tenants, room) # {}
                                  THEN [pc |-> "idle", room |-> room, ok |-> FALSE]
                                  ELSE [pc |-> "insert", room |-> room, ok |-> TRUE]]
    /\ UNCHANGED db
    /\ UNCHANGED <<calcVars, flowVars, validateVars, periodVars>>

\* The INSERT of add_tenant and the commit; is_active takes its default.
AddTenantInsert(c) ==
    /\ tx[c].pc = "insert"
    /\ db' = [tenants |-> db.tenants \cup {[id |-> db.next_id, room_number |-> tx[c].room,
                                            is_active |-> TRUE]},
              next_id |-> db.next_id + 1]
    /\ tx' = [tx EXCEPT ![c].pc = "idle"]
    /\ UNCHANGED <<calcVars, flowVars, validateVars, periodVars>>

\* update_tenant(room, ..., tenant_id), also reached through upsert_tenant
\* with a tenant_id: UPDATE tenants SET room_number = ... WHERE id = tenant_id.
UpdateTenant(c) ==
    /\ tx[c].pc = "idle"
    /\ \E t \in db.tenants, room \in TenantRooms :
          /\ t.room_number # room
          /\ db' = [db EXCEPT !.tenants = (@ \ {t}) \cup {[t EXCEPT !.room_number = room]}]
          /\ tx' = [tx EXCEPT ![c] = [pc |-> "idle", room |-> room, ok |-> TRUE]]
    /\ UNCHANGED <<calcVars, flowVars, validateVars, periodVars>>

\* delete_tenant(tenant_id): UPDATE tenants SET is_active = 0 WHERE id = tenant_id.
DeleteTenant(c) ==
    /\ tx[c].pc = "idle"
    /\ \E t \in db.tenants :
          /\ t.is_active
          /\ db' = [db EXCEPT !.tenants = (@ \ {t}) \cup {[t EXCEPT !.is_active = FALSE]}]
          /\ tx' = [tx EXCEPT ![c] = [pc |-> "idle", room |-> t.room_number, ok |-> TRUE]]
    /\ UNCHANGED <<calcVars, flowVars, validateVars, periodVars>>

NextTenant ==
    \E c \in TwoCallers :
        \/ AddTenantSelect(c)
        \/ AddTenantInsert(c)
        \/ UpdateTenant(c)
        \/ DeleteTenant(c)

SpecTenant == InitTenant /\ [][NextTenant]_vars

\* C29: no room number has more than one active tenant.
C29_OneActiveTenantPerRoom ==
    \A room \in TenantRooms : Cardinality(ActiveIn(db.tenants, room)) <= 1

-----------------------------------------------------------------------------
(* SupabaseDB._retry_on_failure(func, max_retries).  Here tx is the frame   *)
(* of one call: the loop variable attempt, the outcome of every call of     *)
(* func so far, and how the call ended; db counts the seconds slept.  An    *)
(* outcome is what func did: it returned a value, raised                    *)
(* psycopg2.OperationalError, or raised another exception.                  *)

MaxRetries == 4

FuncResults == {"rows", "empty"}

OperationalErrors == {"timeout", "closed"}

OtherExceptions == {"IntegrityError"}

Outcomes ==
    [kind : {"return"}, value : FuncResults]
        \cup [kind : {"OperationalError"}, value : OperationalErrors]
        \cup [kind : {"Exception"}, value : OtherExceptions]

InitRetry ==
    /\ NoCalc
    /\ NoFlow
    /\ NoValidate
    /\ NoPeriod
    /\ db = [slept |-> 0]
    /\ \E max_retries \in 1..MaxRetries :
          tx = [pc |-> "call", max_retries |-> max_retries, attempt |-> 0,
                calls |-> <<>>, ended |-> [kind |-> "running", value |-> "none"]]

last_attempt_never(attempt, max_retries) == FALSE

\* if attempt == max_retries - 1
last_attempt(attempt, max_retries) == attempt = max_retries - 1

\* try: return func(); except psycopg2.OperationalError: raise on the last
\* attempt, else go on to the warning and the sleep.  Another exception is
\* not caught.
CallFunc ==
    /\ tx.pc = "call"
    /\ \E o \in Outcomes :
          tx' = [tx EXCEPT
                   !.calls = Append(@, o),
                   !.pc = IF o.kind = "OperationalError"
                             /\ ~last_attempt(tx.attempt, tx.max_retries)
                          THEN "sleep" ELSE "done",
                   !.ended = IF o.kind = "OperationalError"
                                /\ ~last_attempt(tx.attempt, tx.max_retries)
                             THEN @ ELSE o]
    /\ UNCHANGED db
    /\ UNCHANGED <<calcVars, flowVars, validateVars, periodVars>>

\* logger.warning(...); time.sleep(1 * (attempt + 1)); then the next turn of
\* for attempt in range(max_retries), which falls out of the loop and
\* returns None when the range is used up.
SleepAndLoop ==
    /\ tx.pc = "sleep"
    /\ db' = [slept |-> db.slept + 1 * (tx.attempt + 1)]
    /\ tx' = IF tx.attempt + 1 < tx.max_retries
             THEN [tx EXCEPT !.attempt = @ + 1, !.pc = "call"]
             ELSE [tx EXCEPT !.pc = "done", !.ended = [kind |-> "return", value |-> "None"]]
    /\ UNCHANGED <<calcVars, flowVars, validateVars, periodVars>>

NextRetry == CallFunc \/ SleepAndLoop

SpecRetry == InitRetry /\ [][NextRetry]_vars /\ WF_vars(NextRetry)

AllOperationalBefore(n) ==
    \A i \in 1..(n - 1) : tx.calls[i].kind = "OperationalError"

RetryShape ==
    /\ Len(tx.calls) <= tx.max_retries
    /\ AllOperationalBefore(Len(tx.calls) + 1) \/ tx.pc = "done"
    /\ tx.pc = "done" =>
          /\ tx.calls # <<>>
          /\ tx.ended = tx.calls[Len(tx.calls)]
          /\ AllOperationalBefore(Len(tx.calls))
          /\ tx.ended.kind = "OperationalError" => Len(tx.calls) = tx.max_retries

\* C30: a call with max_retries >= 1 ends, having called func at most
\* max_retries times; func is called again only after an OperationalError;
\* the call ends with the outcome of its last call of func, which is the
\* first return of func, the first exception that is not an
\* OperationalError, or the OperationalError of the max_retries-th call.
C30_RetryTerminates == <>(tx.pc = "done") /\ [](RetryShape)

C30_Witness ==
    /\ tx.pc = "done"
    /\ tx.max_retries = 3
    /\ Len(tx.calls) = 3
    /\ tx.ended.kind = "OperationalError"
    /\ db.slept = 3

====
